---- MODULE Spec2Model ----
(***************************************************************************)
(* Model of gst-plugin/src/utils.rs (gcd, f64_to_fraction) and of the      *)
(* state handling of gst-plugin-tutorial/src/rgb2grey.rs (Rgb2Grey).       *)
(*                                                                         *)
(* f64 values are modelled bit-exactly: a non-negative binary64 number is  *)
(* a record [k, m, e] standing for m * 2^e with a 53-bit mantissa m, and   *)
(* every operation rounds to nearest, ties to even, as IEEE-754 does.      *)
(* Mantissas do not fit the model checker's integers, so they are kept as  *)
(* two limbs <<hi, lo>> in base 2^27.                                      *)
(***************************************************************************)
EXTENDS Integers, Sequences, FiniteSets

(***************************************************************************)
(* Two-limb naturals: <<hi, lo>> is hi * 2^27 + lo.                        *)
(***************************************************************************)
Base == 2^27

PZero == <<0, 0>>

POne == <<0, 1>>

ToP(x) == <<x \div Base, x % Base>>

PToInt(p) == p[1] * Base + p[2]

PLt(x, y) == x[1] < y[1] \/ (x[1] = y[1] /\ x[2] < y[2])

PLe(x, y) == ~PLt(y, x)

PAdd(x, y) == <<x[1] + y[1] + ((x[2] + y[2]) \div Base), (x[2] + y[2]) % Base>>

PSub(x, y) ==
    IF x[2] >= y[2] THEN <<x[1] - y[1], x[2] - y[2]>>
    ELSE <<x[1] - y[1] - 1, x[2] + Base - y[2]>>

PDbl(x) == PAdd(x, x)

PHalf(x) == <<x[1] \div 2, (x[1] % 2) * (Base \div 2) + (x[2] \div 2)>>

POdd(x) == x[2] % 2 = 1

RECURSIVE PShl(_, _)
PShl(x, s) == IF s = 0 THEN x ELSE PShl(PDbl(x), s - 1)

RECURSIVE PShr(_, _)
PShr(x, s) == IF s = 0 \/ x = PZero THEN x ELSE PShr(PHalf(x), s - 1)

\* x shifted right by s, the bits shifted out OR-ed into the lowest bit.
RECURSIVE PShrSticky(_, _)
PShrSticky(x, s) ==
    IF s = 0 \/ x = PZero \/ x = POne THEN x
    ELSE LET h == PHalf(x)
         IN  PShrSticky(IF POdd(x) /\ ~POdd(h) THEN PAdd(h, POne) ELSE h, s - 1)

RECURSIVE PMulInt(_, _)
PMulInt(x, c) ==
    IF c = 0 THEN PZero
    ELSE IF c = 1 THEN x
    ELSE IF c % 2 = 1 THEN PAdd(x, PMulInt(PDbl(x), c \div 2))
    ELSE PMulInt(PDbl(x), c \div 2)

(***************************************************************************)
(* binary64 magnitudes.                                                    *)
(***************************************************************************)
TwoP52 == <<33554432, 0>>

TwoP53 == <<67108864, 0>>

TwoP54 == <<134217728, 0>>

FZero == [k |-> "num", m |-> PZero, e |-> 0]

FInf == [k |-> "inf", m |-> PZero, e |-> 0]

FNaN == [k |-> "nan", m |-> PZero, e |-> 0]

IsZero(x) == x.k = "num" /\ x.m = PZero

\* An exact value m * 2^e with 0 < m < 2^53, brought to a 53-bit mantissa.
RECURSIVE NormUp(_, _)
NormUp(m, e) ==
    IF PLt(m, TwoP52) THEN NormUp(PDbl(m), e - 1)
    ELSE [k |-> "num", m |-> m, e |-> e]

\* m * 2^e (+ a little, when sticky) with m >= 2^53, rounded to nearest even.
RECURSIVE RoundF(_, _, _)
RoundF(m, e, sticky) ==
    IF PLe(TwoP54, m) THEN RoundF(PHalf(m), e + 1, sticky \/ POdd(m))
    ELSE LET h  == PHalf(m)
             up == POdd(m) /\ (sticky \/ POdd(h))
             h2 == IF up THEN PAdd(h, POne) ELSE h
         IN  IF h2 = TwoP53 THEN [k |-> "num", m |-> TwoP52, e |-> e + 2]
             ELSE [k |-> "num", m |-> h2, e |-> e + 1]

\* `x as f64` for an unsigned integer below 2^53 (exact).
FromP(p) == IF p = PZero THEN FZero ELSE NormUp(p, 0)

FromInt(x) == FromP(ToP(x))

\* x < y on non-negative values; false when either is NaN.
FLt(x, y) ==
    IF x.k = "nan" \/ y.k = "nan" THEN FALSE
    ELSE IF x.k = "inf" THEN FALSE
    ELSE IF y.k = "inf" THEN TRUE
    ELSE IF IsZero(y) THEN FALSE
    ELSE IF IsZero(x) THEN TRUE
    ELSE x.e < y.e \/ (x.e = y.e /\ PLt(x.m, y.m))

FGt(x, y) == FLt(y, x)

\* Long division: quotient bits are produced until the quotient has 54 bits
\* (53 and a rounding bit); the result is the quotient and the remainder.
RECURSIVE DivBits(_, _, _)
DivBits(rem, den, quo) ==
    IF PLe(TwoP53, quo) THEN <<quo, rem>>
    ELSE LET r2 == PDbl(rem)
         IN  IF PLt(r2, den) THEN DivBits(r2, den, PDbl(quo))
             ELSE DivBits(PSub(r2, den), den, PAdd(PDbl(quo), POne))

\* x / y, correctly rounded.
FDiv(x, y) ==
    IF x.k = "nan" \/ y.k = "nan" THEN FNaN
    ELSE IF x.k = "inf" THEN (IF y.k = "inf" THEN FNaN ELSE FInf)
    ELSE IF y.k = "inf" THEN FZero
    ELSE IF IsZero(y) THEN (IF IsZero(x) THEN FNaN ELSE FInf)
    ELSE IF IsZero(x) THEN FZero
    ELSE LET small == PLt(x.m, y.m)
             num   == IF small THEN PDbl(x.m) ELSE x.m
             qr    == DivBits(PSub(num, y.m), y.m, POne)
         IN  RoundF(qr[1], x.e - y.e - (IF small THEN 1 ELSE 0) - 53,
                    qr[2] # PZero)

\* x + y on non-negative values, correctly rounded.
FAdd(x, y) ==
    IF x.k = "nan" \/ y.k = "nan" THEN FNaN
    ELSE IF x.k = "inf" \/ y.k = "inf" THEN FInf
    ELSE IF IsZero(x) THEN y
    ELSE IF IsZero(y) THEN x
    ELSE LET big == IF FLt(x, y) THEN y ELSE x
             sml == IF FLt(x, y) THEN x ELSE y
             s   == PAdd(PShl(big.m, 3), PShrSticky(PShl(sml.m, 3), big.e - sml.e))
         IN  RoundF(s, big.e - 3, FALSE)

\* |x - y| on non-negative values, correctly rounded.
FAbsDiff(x, y) ==
    IF x.k = "nan" \/ y.k = "nan" THEN FNaN
    ELSE IF x.k = "inf" THEN (IF y.k = "inf" THEN FNaN ELSE FInf)
    ELSE IF y.k = "inf" THEN FInf
    ELSE IF IsZero(x) THEN y
    ELSE IF IsZero(y) THEN x
    ELSE LET big == IF FLt(x, y) THEN y ELSE x
             sml == IF FLt(x, y) THEN x ELSE y
             df  == PSub(PShl(big.m, 3), PShrSticky(PShl(sml.m, 3), big.e - sml.e))
         IN  IF df = PZero THEN FZero
             ELSE IF PLt(df, TwoP53) THEN NormUp(df, big.e - 3)
             ELSE RoundF(df, big.e - 3, FALSE)

(***************************************************************************)
(* Program constants.                                                      *)
(***************************************************************************)
I32MAX == 2147483647

MAX_ITERATIONS == 30

\* 10^10 and 10^20 = 5^20 * 2^20 are exact in binary64, so the literals
\* 1.0e-10 and 1.0e-20 are the correctly rounded quotients 1 / 10^k.
Pow10P10 == PMulInt(ToP(100000), 100000)

Pow5P20 == PMulInt(PMulInt(PMulInt(ToP(9765625), 125), 125), 625)

EPSILON == FDiv(FromInt(1), FromP(Pow10P10))

MAX_ERROR == FDiv(FromInt(1), NormUp(Pow5P20, 20))

\* u32::MAX, the value a saturating `as u32` gives from 2^32 on.
U32MAX == <<31, Base - 1>>

(***************************************************************************)
(* Bounds of the model: which inputs are tried.                            *)
(***************************************************************************)
\* gcd is called on every pair from 0..MaxGcd.
MaxGcd == 24

\* f64_to_fraction is called on +-p/q for p in 0..MaxNum, q in 1..MaxDen ...
MaxNum == 7

MaxDen == 6

\* ... and on the first NumLiterals entries of Literals, with either sign.
NumLiterals == 18

\* Values written as the rational p/q they are the nearest binary64 to
\* (what the decimal literal, or `p as f64 / q as f64`, evaluates to).
Literals ==
    << [num |-> ToP(127659574),  den |-> ToP(1000000000)],  \* 0.127659574
       [num |-> ToP(2997),       den |-> ToP(100)],         \* 29.97
       [num |-> ToP(2147483647), den |-> ToP(1)],           \* i32::MAX
       [num |-> <<16, 0>>,       den |-> ToP(1)],           \* 2147483648.0
       [num |-> U32MAX,          den |-> ToP(2)],           \* 2147483647.5
       [num |-> ToP(3),          den |-> PDbl(Pow10P10)],   \* 1.5e-10
       [num |-> ToP(1134903170), den |-> ToP(701408733)],   \* F45 / F44
       [num |-> ToP(1),          den |-> PMulInt(Pow10P10, 100)], \* 1e-12
       [num |-> Pow10P10,        den |-> ToP(1)],           \* 1e10
       [num |-> ToP(314159265),  den |-> ToP(100000000)],   \* 3.14159265
       [num |-> ToP(2147483646), den |-> ToP(2147483647)],
       [num |-> ToP(1),          den |-> ToP(2147483647)],
       [num |-> ToP(5413381),    den |-> ToP(5908428)],
       [num |-> ToP(1073741823), den |-> ToP(1073741824)],  \* 1 - 2^-30
       [num |-> ToP(134217727),  den |-> ToP(134217728)],   \* 1 - 2^-27
       [num |-> ToP(2147483647), den |-> ToP(134217728)],
       [num |-> ToP(891166249),  den |-> ToP(891166256)],
       [num |-> ToP(189277686),  den |-> ToP(189277687)],
       [num |-> ToP(2147483647), den |-> ToP(102261126)],
       [num |-> ToP(2147483647), den |-> ToP(2)],
       [num |-> ToP(1000000007), den |-> ToP(999999937)] >>

Min(x, y) == IF x < y THEN x ELSE y

\* The magnitudes f64_to_fraction is called with.
Magnitudes ==
    {[kind |-> "num", num |-> ToP(p), den |-> ToP(q)] : p \in 0..MaxNum, q \in 1..MaxDen}
    \cup {[kind |-> "num", num |-> Literals[i].num, den |-> Literals[i].den] :
             i \in 1..Min(NumLiterals, Len(Literals))}
    \cup {[kind |-> "inf", num |-> POne, den |-> PZero],
          [kind |-> "nan", num |-> PZero, den |-> PZero]}

\* The f64 `val` of a call: its sign and its magnitude.
F64Of(mag, neg) ==
    [neg |-> neg,
     abs |-> IF mag.kind = "inf" THEN FInf
             ELSE IF mag.kind = "nan" THEN FNaN
             ELSE FDiv(FromP(mag.num), FromP(mag.den))]

(***************************************************************************)
(* State.                                                                  *)
(***************************************************************************)
VARIABLES
    mag,      \* the magnitude under test: f64_to_fraction(x), then (-x)
    arith,    \* the build's integer arithmetic, and whether a result has wrapped
    first,    \* the outcome of the call on x, kept while -x is run
    val,      \* f64_to_fraction: the argument
    pc,       \* where the running call is
    fr,       \* f64_to_fraction: its locals negative, q, n0, d0, n1, d1, n, d, r, g
    iter,     \* f64_to_fraction: iterations of the `for` loop started
    exitBy,   \* f64_to_fraction: how the loop was left
    ret,      \* the call's return value
    gin,      \* gcd: the arguments of the call
    ga, gb,   \* gcd: its locals a and b
    state,        \* Rgb2Grey: the element's `state`, an Option<State> in a mutex
    state_guard,  \* Rgb2Grey: the thread holding the lock on `state`, 0 for none
    poisoned,     \* Rgb2Grey: a thread has panicked holding the lock on `state`
    thread,       \* Rgb2Grey: where each streaming or application thread is
    returned,     \* Rgb2Grey: the call that returned last
    last          \* Rgb2Grey: the latest of creation, a successful set_caps, stop

vars == <<mag, arith, first, val, pc, fr, iter, exitBy, ret, gin, ga, gb>>

evars == <<state, state_guard, poisoned, thread, returned, last>>

\* The two builds: integer overflow panics in the debug build and wraps in
\* the release build.
Builds == {"debug", "release"}

Arith(build) == [build |-> build, wrapped |-> FALSE]

None == [some |-> FALSE, numer |-> 0, denom |-> 0, args |-> <<0, 0>>]

NoCall == [ret |-> None, iter |-> 0, exitBy |-> "", pc |-> ""]

\* Locals as the code initialises them (n, d, r, g are assigned in the loop).
Locals(v) ==
    [negative |-> v.neg /\ v.abs.k # "nan" /\ ~IsZero(v.abs),
     q  |-> v.abs,
     n0 |-> PZero, d0 |-> POne, n1 |-> POne, d1 |-> PZero,
     n  |-> PZero, d  |-> PZero, r  |-> FZero, g |-> PZero]

(***************************************************************************)
(* u32 arithmetic on two-limb naturals below 2^32. A result that does not  *)
(* fit is a panic in the debug build and wraps modulo 2^32 in the release  *)
(* build.                                                                  *)
(***************************************************************************)
TwoP32 == <<32, 0>>

\* x modulo 2^32, for x below 2^33.
Wrap(x) == <<x[1] % TwoP32[1], x[2]>>

\* A u32 value that fits i32.
FitsI32(a) == a[1] < 16

\* Digits of 11 bits, to multiply within the model checker's integers.
Limb == 2^11

Limbs(x) ==
    <<x[2] % Limb, (x[2] \div Limb) % Limb, (x[2] \div (Limb * Limb)) + x[1] * 32>>

\* a * x in full: its two lowest digits, the digits from 2^22 on that reach
\* below 2^33, and whether anything lies above.
MulDigits(a, x) ==
    LET la == Limbs(a)
        lx == Limbs(x)
        c0 == la[1] * lx[1]
        c1 == la[1] * lx[2] + la[2] * lx[1]
        c2 == la[1] * lx[3] + la[2] * lx[2] + la[3] * lx[1]
        c3 == la[2] * lx[3] + la[3] * lx[2]
        c4 == la[3] * lx[3]
        t1 == c1 + (c0 \div Limb)
        t2 == c2 + (t1 \div Limb)
    IN  <<c0 % Limb, t1 % Limb, t2, c3 + c4>>

\* Whether `a * x` fits u32.
MulFits(a, x) == MulDigits(a, x)[3] < Limb \div 2 /\ MulDigits(a, x)[4] = 0

\* `a * x`, modulo 2^32.
Mul(a, x) ==
    LET m  == MulDigits(a, x)
        d2 == m[3] % (Limb \div 2)
    IN  <<d2 \div 32, m[1] + m[2] * Limb + (d2 % 32) * Limb * Limb>>

\* Whether `x + y` fits u32.
AddFits(x, y) == PLt(PAdd(x, y), TwoP32)

\* `x + y`, modulo 2^32.
Add(x, y) == Wrap(PAdd(x, y))

\* Whether `x - y` fits u32.
SubFits(x, y) == PLe(y, x)

\* `x - y`, modulo 2^32.
Sub(x, y) == IF PLe(y, x) THEN PSub(x, y) ELSE PSub(PAdd(x, TwoP32), y)

\* Long division of x by y # 0, bit by bit from bit st[1] down; st[2] is the
\* quotient and st[3] the remainder so far.
RECURSIVE UDivBits(_, _, _)
UDivBits(x, y, st) ==
    IF st[1] < 0 THEN <<st[2], st[3]>>
    ELSE LET rem == PAdd(PDbl(st[3]), IF POdd(PShr(x, st[1])) THEN POne ELSE PZero)
         IN  UDivBits(x, y,
                      IF PLe(y, rem)
                      THEN <<st[1] - 1, PAdd(PDbl(st[2]), POne), PSub(rem, y)>>
                      ELSE <<st[1] - 1, PDbl(st[2]), rem>>)

\* `x / y` and `x % y` for y # 0.
Div(x, y) == UDivBits(x, y, <<31, PZero, PZero>>)[1]

Rem(x, y) == UDivBits(x, y, <<31, PZero, PZero>>)[2]

(***************************************************************************)
(* gcd (Euclid's algorithm), as a function and step by step.               *)
(***************************************************************************)
RECURSIVE gcd(_, _)
gcd(a, b) == IF b # PZero THEN gcd(b, Rem(a, b)) ELSE a

\* One turn of the `while b != 0` loop.
GcdStep ==
    /\ pc = "gcd"
    /\ gb # PZero
    /\ ga' = gb
    /\ gb' = Rem(ga, gb)
    /\ UNCHANGED <<mag, arith, first, val, pc, fr, iter, exitBy, ret, gin>>
    /\ UNCHANGED evars

\* gcd returning b, which is 0 when the loop is left, instead of a.
GcdReturnB ==
    /\ pc = "gcd"
    /\ gb = PZero
    /\ pc' = IF mag.kind = "gcd" THEN "done" ELSE "tail"
    /\ fr' = [fr EXCEPT !.g = gb]
    /\ UNCHANGED <<mag, arith, first, val, iter, exitBy, ret, gin, ga, gb>>
    /\ UNCHANGED evars

\* `b == 0`: gcd returns a, to its caller or into f64_to_fraction's `g`.
GcdReturn ==
    /\ pc = "gcd"
    /\ gb = PZero
    /\ pc' = IF mag.kind = "gcd" THEN "done" ELSE "tail"
    /\ fr' = [fr EXCEPT !.g = ga]
    /\ UNCHANGED <<mag, arith, first, val, iter, exitBy, ret, gin, ga, gb>>
    /\ UNCHANGED evars

(***************************************************************************)
(* f64_to_fraction.                                                        *)
(***************************************************************************)
\* `q as u32`: truncation, saturating at 0 and u32::MAX, NaN to 0.
AsU32(q) ==
    IF q.k = "nan" THEN PZero
    ELSE IF q.k = "inf" THEN U32MAX
    ELSE IF IsZero(q) THEN PZero
    ELSE IF q.e >= -20 THEN U32MAX
    ELSE IF q.e <= -53 THEN PZero
    ELSE PShr(q.m, -q.e)

\* `x - y` for 0 <= y <= x (q and its integer part).
FSub(x, y) == FAbsDiff(x, y)

\* `(x - v).abs()` for x >= 0 and a signed v.
FAbsDiffSigned(x, v) ==
    IF v.neg THEN FAdd(x, v.abs) ELSE FAbsDiff(x, v.abs)

\* `i32::MAX as u32`.
MaxU32 == ToP(I32MAX)

\* (i32::MAX as u32) / a, for a # 0.
MaxDiv(a) == Div(MaxU32, a)

\* The guard with `>=` for its first `>`: it fires one step early.
OverflowGuardEarly(a, l) ==
    IF a = PZero THEN [fires |-> FALSE, fits |-> TRUE]
    ELSE IF PLe(MaxDiv(a), l.n1) \/ PLt(MaxDiv(a), l.d1)
    THEN [fires |-> TRUE, fits |-> TRUE]
    ELSE IF PLt(Sub(MaxU32, l.n0), Mul(a, l.n1))
    THEN [fires |-> TRUE, fits |-> MulFits(a, l.n1) /\ SubFits(MaxU32, l.n0)]
    ELSE [fires |-> PLt(Sub(MaxU32, l.d0), Mul(a, l.d1)),
          fits  |-> /\ MulFits(a, l.n1) /\ SubFits(MaxU32, l.n0)
                    /\ MulFits(a, l.d1) /\ SubFits(MaxU32, l.d0)]

\* The guard without its two division checks: the products are evaluated
\* whatever their size.
OverflowGuardMulOnly(a, l) ==
    IF a = PZero THEN [fires |-> FALSE, fits |-> TRUE]
    ELSE IF PLt(Sub(MaxU32, l.n0), Mul(a, l.n1))
    THEN [fires |-> TRUE, fits |-> MulFits(a, l.n1) /\ SubFits(MaxU32, l.n0)]
    ELSE [fires |-> PLt(Sub(MaxU32, l.d0), Mul(a, l.d1)),
          fits  |-> /\ MulFits(a, l.n1) /\ SubFits(MaxU32, l.n0)
                    /\ MulFits(a, l.d1) /\ SubFits(MaxU32, l.d0)]

\* The `if` of lines 125-127, its operands evaluated left to right with
\* short-circuiting: whether it fires, and whether every product and
\* difference that is evaluated fits u32.
OverflowGuard(a, l) ==
    IF a = PZero THEN [fires |-> FALSE, fits |-> TRUE]
    ELSE IF PLt(MaxDiv(a), l.n1) \/ PLt(MaxDiv(a), l.d1)
    THEN [fires |-> TRUE, fits |-> TRUE]
    ELSE IF PLt(Sub(MaxU32, l.n0), Mul(a, l.n1))
    THEN [fires |-> TRUE, fits |-> MulFits(a, l.n1) /\ SubFits(MaxU32, l.n0)]
    ELSE [fires |-> PLt(Sub(MaxU32, l.d0), Mul(a, l.d1)),
          fits  |-> /\ MulFits(a, l.n1) /\ SubFits(MaxU32, l.n0)
                    /\ MulFits(a, l.d1) /\ SubFits(MaxU32, l.d0)]

\* Whether `a * n1 + n0` and `a * d1 + d0` fit u32.
UpdateFits(a, l) ==
    /\ MulFits(a, l.n1) /\ AddFits(Mul(a, l.n1), l.n0)
    /\ MulFits(a, l.d1) /\ AddFits(Mul(a, l.d1), l.d0)

\* The update with `n = a * n1`, the `+ n0` forgotten.
UpdateNoCarry(a, l) ==
    [l EXCEPT !.n  = Mul(a, l.n1),
              !.d  = Add(Mul(a, l.d1), l.d0),
              !.n0 = l.n1,
              !.d0 = l.d1,
              !.n1 = Mul(a, l.n1),
              !.d1 = Add(Mul(a, l.d1), l.d0)]

\* The update that does not shift (n1, d1) into (n0, d0).
UpdateNoShift(a, l) ==
    [l EXCEPT !.n  = Add(Mul(a, l.n1), l.n0),
              !.d  = Add(Mul(a, l.d1), l.d0),
              !.n1 = Add(Mul(a, l.n1), l.n0),
              !.d1 = Add(Mul(a, l.d1), l.d0)]

\* Lines 131-137: the next convergent.
Update(a, l) ==
    [l EXCEPT !.n  = Add(Mul(a, l.n1), l.n0),
              !.d  = Add(Mul(a, l.d1), l.d0),
              !.n0 = l.n1,
              !.d0 = l.d1,
              !.n1 = Add(Mul(a, l.n1), l.n0),
              !.d1 = Add(Mul(a, l.d1), l.d0)]

\* Lines 148-151: n1 and d1 divided by g.
Reduce(l) ==
    IF l.g # PZero THEN [l EXCEPT !.n1 = Div(l.n1, l.g), !.d1 = Div(l.d1, l.g)] ELSE l

\* Line 154.
CloseEnough(l, v) ==
    FLt(FAbsDiffSigned(FDiv(FromP(l.n), FromP(l.d)), v), MAX_ERROR)

\* The check with `>=`: i32::MAX itself is rejected.
TooLargeOrEqual(q) == ~FLt(q, FromInt(I32MAX))

\* Line 116.
TooLarge(q) == FGt(q, FromInt(I32MAX))

\* Lines 172 and 174: the arguments of Rational32::new, for n1 and d1 within
\* i32::MAX.
RationalArgs(l) ==
    IF l.negative THEN <<-PToInt(l.n1), PToInt(l.d1)>> ELSE <<PToInt(l.n1), PToInt(l.d1)>>

\* Some(Rational32::new(numer, denom)) for denom > 0: the fraction as
\* num-rational keeps it, reduced, and the arguments it was made from.
RationalNew(numer, denom) ==
    LET c == PToInt(gcd(ToP(IF numer < 0 THEN -numer ELSE numer), ToP(denom)))
    IN  [some |-> TRUE, numer |-> numer \div c, denom |-> denom \div c,
         args |-> <<numer, denom>>]

\* Lines 102-118: the locals, and the check on the magnitude.
Start ==
    /\ pc = "start"
    /\ fr' = Locals(val)
    /\ IF TooLarge(val.abs)
       THEN /\ pc' = "done"
            /\ ret' = None
            /\ exitBy' = "too large"
       ELSE /\ pc' = "loop"
            /\ UNCHANGED <<ret, exitBy>>
    /\ UNCHANGED <<mag, arith, first, val, iter, gin, ga, gb>>
    /\ UNCHANGED evars

\* A run of the loop body that does not count as one of the 30.
NextIterStuck(i) == i

\* `for _ in 0..MAX_ITERATIONS`: the iterations are counted.
NextIter(i) == i + 1

\* Lines 120-147: one iteration, up to the call of gcd. An integer result
\* that does not fit u32 ends the debug build's call in a panic; the release
\* build goes on with the wrapped value.
LoopHead ==
    /\ pc = "loop"
    /\ iter < MAX_ITERATIONS
    /\ iter' = NextIter(iter)
    /\ LET a     == AsU32(fr.q)
           f     == FSub(fr.q, FromP(a))
           guard == OverflowGuard(a, fr)
           fits  == guard.fits /\ (guard.fires \/ UpdateFits(a, fr))
       IN  IF ~fits /\ arith.build = "debug"
           THEN /\ pc' = "panic"
                /\ exitBy' = "overflow"
                /\ UNCHANGED <<arith, fr, ga, gb>>
           ELSE /\ arith' = [arith EXCEPT !.wrapped = @ \/ ~fits]
                /\ IF guard.fires
                   THEN /\ pc' = "exit"
                        /\ exitBy' = "guard"
                        /\ UNCHANGED <<fr, ga, gb>>
                   ELSE IF FLt(f, EPSILON)
                   THEN /\ pc' = "exit"
                        /\ exitBy' = "eps"
                        /\ fr' = Update(a, fr)
                        /\ UNCHANGED <<ga, gb>>
                   ELSE /\ pc' = "gcd"
                        /\ exitBy' = exitBy
                        /\ fr' = [Update(a, fr) EXCEPT !.r = FDiv(FromInt(1), f)]
                        /\ ga' = Update(a, fr).n1
                        /\ gb' = Update(a, fr).d1
    /\ UNCHANGED <<mag, first, val, ret, gin>>
    /\ UNCHANGED evars

\* Lines 148-158: the rest of the iteration, once gcd has returned.
LoopTail ==
    /\ pc = "tail"
    /\ IF CloseEnough(fr, val)
       THEN /\ pc' = "exit"
            /\ exitBy' = "close"
            /\ fr' = Reduce(fr)
       ELSE /\ pc' = "loop"
            /\ exitBy' = exitBy
            /\ fr' = [Reduce(fr) EXCEPT !.q = fr.r]
    /\ UNCHANGED <<mag, arith, first, val, iter, ret, gin, ga, gb>>
    /\ UNCHANGED evars

\* The `for` loop runs out after MAX_ITERATIONS iterations.
LoopEnd ==
    /\ pc = "loop"
    /\ iter = MAX_ITERATIONS
    /\ pc' = "exit"
    /\ exitBy' = "cap"
    /\ UNCHANGED <<mag, arith, first, val, fr, iter, ret, gin, ga, gb>>
    /\ UNCHANGED evars

\* The result with the overflow guard treated as a failure.
FinishFailOnGuard ==
    /\ pc = "exit"
    /\ IF ~FitsI32(fr.n1) \/ ~FitsI32(fr.d1)
       THEN /\ pc' = "panic"
            /\ ret' = ret
       ELSE /\ pc' = "done"
            /\ ret' = IF fr.d1 = PZero \/ exitBy = "guard" THEN None
                      ELSE RationalNew(RationalArgs(fr)[1], RationalArgs(fr)[2])
    /\ UNCHANGED <<mag, arith, first, val, fr, iter, exitBy, gin, ga, gb>>
    /\ UNCHANGED evars

\* Lines 161-175: the assertions, and the result Rational32::new makes of
\* (n1, d1) and the sign.
Finish ==
    /\ pc = "exit"
    /\ IF ~FitsI32(fr.n1) \/ ~FitsI32(fr.d1)
       THEN /\ pc' = "panic"
            /\ ret' = ret
       ELSE /\ pc' = "done"
            /\ ret' = IF fr.d1 = PZero THEN None
                      ELSE RationalNew(RationalArgs(fr)[1], RationalArgs(fr)[2])
    /\ UNCHANGED <<mag, arith, first, val, fr, iter, exitBy, gin, ga, gb>>
    /\ UNCHANGED evars

\* The caller: f64_to_fraction(x) has returned, f64_to_fraction(-x) is called.
CallNegated ==
    /\ pc \in {"done", "panic"}
    /\ mag.kind # "gcd"
    /\ ~val.neg
    /\ first' = [ret |-> ret, iter |-> iter, exitBy |-> exitBy, pc |-> pc]
    /\ val' = [val EXCEPT !.neg = TRUE]
    /\ pc' = "start"
    /\ iter' = 0
    /\ exitBy' = ""
    /\ ret' = None
    /\ UNCHANGED <<mag, arith, fr, gin, ga, gb>>
    /\ UNCHANGED evars

(***************************************************************************)
(* The Rgb2Grey element: its state over set_caps, stop and transform.      *)
(***************************************************************************)
\* Threads calling into the element.
NumThreads == 2

Threads == 1..NumThreads

\* Caps as the element meets them: caps VideoInfo::from_caps makes nothing
\* of, and video caps of a format, a width and a height.
NoVideo == [format |-> "unparsable", width |-> 0, height |-> 0]

Video(format, width, height) == [format |-> format, width |-> width, height |-> height]

\* The caps set_caps is called with, any two of them. BGRx is the format of
\* the sink pad template (lines 109-123), BGRx and GRAY8 are the formats of
\* the src pad template (lines 80-100), and both templates take every width
\* and height from 0 on.
Caps ==
    {NoVideo, Video("bgrx", 2, 1), Video("bgrx", 2, 2), Video("bgrx", 0, 1),
     Video("gray8", 2, 1), Video("gray8", 0, 1), Video("rgb", 2, 1)}

NoState == [some |-> FALSE]

State(in_info, out_info) == [some |-> TRUE, in_info |-> in_info, out_info |-> out_info]

\* gst_video::VideoInfo::from_caps: None for caps that describe no video format.
from_caps(caps) ==
    IF caps.format = "unparsable" THEN [some |-> FALSE] ELSE [some |-> TRUE, info |-> caps]

Idle == [pc |-> "idle"]

NoReturn == [op |-> "", args |-> <<>>, value |-> "", n |-> 0]

\* The end of a call, told from the one before it by n; the value is what the
\* call returned, or "panic".
Return(op, args, value) ==
    [op |-> op, args |-> args, value |-> value, n |-> 1 - returned.n]

\* Rgb2Grey::new: no state, nobody inside, the mutex sound.
new ==
    /\ state = NoState
    /\ state_guard = 0
    /\ poisoned = FALSE
    /\ thread = [t \in Threads |-> Idle]
    /\ returned = NoReturn
    /\ last = "new"

\* set_caps: both caps are parsed and false is returned when either fails;
\* otherwise the state is replaced under the lock and true is returned.
\* `lock().unwrap()` panics on a poisoned mutex.
set_caps(t) ==
    /\ thread[t].pc = "idle"
    /\ \E incaps \in Caps, outcaps \in Caps :
          IF ~from_caps(incaps).some \/ ~from_caps(outcaps).some
          THEN /\ returned' = Return("set_caps", <<incaps, outcaps>>, "false")
               /\ UNCHANGED <<state, last>>
          ELSE /\ state_guard = 0
               /\ IF poisoned
                  THEN /\ returned' = Return("set_caps", <<incaps, outcaps>>, "panic")
                       /\ UNCHANGED <<state, last>>
                  ELSE /\ state' = State(from_caps(incaps).info, from_caps(outcaps).info)
                       /\ last' = "set_caps"
                       /\ returned' = Return("set_caps", <<incaps, outcaps>>, "true")
    /\ UNCHANGED <<state_guard, poisoned, thread>>
    /\ UNCHANGED vars

\* stop: the state is taken out under the lock, and true is returned.
\* `lock().unwrap()` panics on a poisoned mutex.
stop(t) ==
    /\ thread[t].pc = "idle"
    /\ state_guard = 0
    /\ IF poisoned
       THEN /\ returned' = Return("stop", <<>>, "panic")
            /\ UNCHANGED <<state, last>>
       ELSE /\ state' = NoState
            /\ last' = "stop"
            /\ returned' = Return("stop", <<>>, "true")
    /\ UNCHANGED <<state_guard, poisoned, thread>>
    /\ UNCHANGED vars

\* transform, lines 221-225: the lock is taken, with a panic when the mutex
\* is poisoned; without a state the call returns NotNegotiated, with one it
\* goes on holding the lock.
transform(t) ==
    /\ thread[t].pc = "idle"
    /\ state_guard = 0
    /\ IF poisoned
       THEN /\ returned' = Return("transform", <<>>, "panic")
            /\ UNCHANGED <<state_guard, thread>>
       ELSE IF ~state.some
       THEN /\ returned' = Return("transform", <<>>, "NotNegotiated")
            /\ UNCHANGED <<state_guard, thread>>
       ELSE /\ state_guard' = t
            /\ thread' = [thread EXCEPT ![t] = [pc |-> "transform_frames"]]
            /\ returned' = returned
    /\ UNCHANGED <<state, poisoned, last>>
    /\ UNCHANGED vars

\* The stride of plane 0 of a frame: 4 bytes a pixel for BGRx, 1 for GRAY8
\* and 3 for RGB, each line rounded up to a multiple of 4.
plane_stride(info) ==
    IF info.format = "bgrx" THEN 4 * info.width
    ELSE IF info.format = "gray8" THEN ((info.width + 3) \div 4) * 4
    ELSE ((3 * info.width + 3) \div 4) * 4

\* The length of plane 0 of a frame.
plane_data_len(info) == plane_stride(info) * info.height

\* Lines 241-321 on two mapped frames: "Ok", or "panic" when an assertion
\* fails, a stride of 0 is divided by, or the output format is neither BGRx
\* nor GRAY8.
convert(in_info, out_info) ==
    LET width      == in_info.width
        in_stride  == plane_stride(in_info)
        in_len     == plane_data_len(in_info)
        out_stride == plane_stride(out_info)
        out_len    == plane_data_len(out_info)
    IN  IF out_info.format = "bgrx"
        THEN IF /\ in_len % 4 = 0
                /\ out_len % 4 = 0
                /\ out_stride # 0
                /\ in_stride # 0
                /\ out_len \div out_stride = in_len \div in_stride
                /\ width * 4 <= in_stride
                /\ width * 4 <= out_stride
             THEN "Ok" ELSE "panic"
        ELSE IF out_info.format = "gray8"
        THEN IF /\ in_len % 4 = 0
                /\ out_stride # 0
                /\ in_stride # 0
                /\ out_len \div out_stride = in_len \div in_stride
                /\ width * 4 <= in_stride
                /\ width <= out_stride
             THEN "Ok" ELSE "panic"
        ELSE "panic"

\* transform, lines 227-321: the two buffers are mapped with the stored
\* infos, Error when either cannot be, and the pixels are converted. The lock
\* is given back on return; a panic gives it back poisoned.
transform_frames(t) ==
    /\ thread[t].pc = "transform_frames"
    /\ state_guard = t
    /\ \E in_frame \in BOOLEAN, out_frame \in BOOLEAN :
          LET value == IF ~in_frame THEN "Error"
                       ELSE IF ~out_frame THEN "Error"
                       ELSE convert(state.in_info, state.out_info)
          IN  /\ returned' = Return("transform", <<>>, value)
              /\ poisoned' = (value = "panic")
    /\ state_guard' = 0
    /\ thread' = [thread EXCEPT ![t] = Idle]
    /\ UNCHANGED <<state, last>>
    /\ UNCHANGED vars

Init ==
    /\ new
    /\ arith \in {Arith(build) : build \in Builds}
    /\ mag \in Magnitudes
    /\ first = NoCall
    /\ val = F64Of(mag, FALSE)
    /\ pc = "start"
    /\ fr = Locals(val)
    /\ iter = 0
    /\ exitBy = ""
    /\ ret = None
    /\ gin = <<0, 0>>
    /\ ga = PZero
    /\ gb = PZero

Next ==
    \/ Start
    \/ LoopHead
    \/ GcdStep
    \/ GcdReturn
    \/ LoopTail
    \/ LoopEnd
    \/ Finish
    \/ CallNegated

Spec == Init /\ [][Next]_vars

(***************************************************************************)
(* gcd called on its own.                                                  *)
(***************************************************************************)
InitGcd ==
    /\ new
    /\ arith \in {Arith(build) : build \in Builds}
    /\ mag = [kind |-> "gcd", num |-> PZero, den |-> PZero]
    /\ first = NoCall
    /\ val = F64Of([kind |-> "nan"], FALSE)
    /\ pc = "gcd"
    /\ fr = Locals(val)
    /\ iter = 0
    /\ exitBy = ""
    /\ ret = None
    /\ gin \in (0..MaxGcd) \X (0..MaxGcd)
    /\ ga = ToP(gin[1])
    /\ gb = ToP(gin[2])

NextGcd ==
    \/ GcdStep
    \/ GcdReturn

SpecGcd == InitGcd /\ [][NextGcd]_vars

(***************************************************************************)
(* The element called from several threads.                                *)
(***************************************************************************)
InitElement ==
    /\ new
    /\ arith \in {Arith(build) : build \in Builds}
    /\ mag = [kind |-> "nan", num |-> PZero, den |-> PZero]
    /\ first = NoCall
    /\ val = F64Of(mag, FALSE)
    /\ pc = ""
    /\ fr = Locals(val)
    /\ iter = 0
    /\ exitBy = ""
    /\ ret = None
    /\ gin = <<0, 0>>
    /\ ga = PZero
    /\ gb = PZero

NextElement ==
    \/ \E t \in Threads : set_caps(t)
    \/ \E t \in Threads : stop(t)
    \/ \E t \in Threads : transform(t)
    \/ \E t \in Threads : transform_frames(t)

SpecElement == InitElement /\ [][NextElement]_evars

(***************************************************************************)
(* Properties.                                                             *)
(***************************************************************************)
Max(x, y) == IF x < y THEN y ELSE x

IsFinite(v) == v.abs.k = "num"

\* The mantissa of i32::MAX = (2^31 - 1) * 2^22 * 2^-22.
MaxMant == PShl(ToP(I32MAX), 22)

\* |x| > i32::MAX, read off the binary64 value.
AboveI32Max(x) ==
    \/ x.k = "inf"
    \/ x.k = "num" /\ ~IsZero(x) /\ (x.e > -22 \/ (x.e = -22 /\ PLt(MaxMant, x.m)))

\* A finite value of magnitude at most i32::MAX.
Representable(v) == IsFinite(v) /\ ~AboveI32Max(v.abs)

\* The call returned Some of the fraction numer/denom.
Gave(r, numer, denom) == r.some /\ r.numer = numer /\ r.denom = denom

\* The greatest common divisor of two integers of the model checker.
IntGcd(p, q) == PToInt(gcd(ToP(p), ToP(q)))

\* The number of terms of the continued fraction of p/q.
RECURSIVE CFTerms(_, _)
CFTerms(p, q) == IF q = 0 THEN 0 ELSE 1 + CFTerms(q, p % q)

\* The value under test is a rational p/q, p and q within i32, whose exact
\* continued fraction ends within 30 terms: its convergents are bounded by p
\* and q, so no term would trip the overflow guard.
ShortExactRational ==
    /\ mag.kind = "num"
    /\ FitsI32(mag.num)
    /\ FitsI32(mag.den)
    /\ CFTerms(PToInt(mag.num), PToInt(mag.den)) <= MAX_ITERATIONS

\* The call returned that rational in lowest terms, the sign on the numerator.
GaveExactResult ==
    LET p == PToInt(mag.num)
        q == PToInt(mag.den)
        c == IntGcd(p, q)
    IN  Gave(ret, IF val.neg THEN -(p \div c) ELSE p \div c, q \div c)

\* The call on the literal p/q, negated or not, has returned.
Returned(p, q, neg) ==
    pc = "done" /\ mag.kind = "num" /\ mag.num = ToP(p) /\ mag.den = ToP(q) /\ val.neg = neg

\* n1 * d0 - n0 * d1 modulo m, for entries within i32::MAX.
DetMod(l, m) ==
    (((PToInt(l.n1) % m) * (PToInt(l.d0) % m)) - ((PToInt(l.n0) % m) * (PToInt(l.d1) % m))) % m

\* Pairwise coprime moduli whose product exceeds 2^64: a determinant of
\* 31-bit entries that is s modulo each of them is s.
Moduli == {46327, 46331, 46337, 46339, 46340}

\* |n1 * d0 - n0 * d1| = 1.
DetIsUnit(l) ==
    /\ \A x \in {l.n0, l.d0, l.n1, l.d1} : FitsI32(x)
    /\ \/ \A m \in Moduli : DetMod(l, m) = 1
       \/ \A m \in Moduli : DetMod(l, m) = m - 1

\* C1: gcd(a, b) is the greatest common divisor: for a, b > 0 it divides both
\* and no larger number does; gcd(a, 0) = gcd(0, a) = a; gcd(a, b) = gcd(b, a).
C1_GcdIsGreatestCommonDivisor ==
    (pc = "done" /\ mag.kind = "gcd") =>
        /\ FitsI32(fr.g)
        /\ LET a == gin[1]
               b == gin[2]
               c == PToInt(fr.g)
           IN  /\ b = 0 => c = a
               /\ a = 0 => c = b
               /\ (a > 0 /\ b > 0) =>
                     /\ c > 0
                     /\ a % c = 0
                     /\ b % c = 0
                     /\ \A e \in (c + 1)..Max(a, b) : a % e # 0 \/ b % e # 0
               /\ c = IntGcd(b, a)

C1_Witness == pc = "done" /\ mag.kind = "gcd" /\ gin = <<16, 24>> /\ fr.g = ToP(8)

\* C2: a value of magnitude above i32::MAX is answered None before any
\* iteration of the loop; i32::MAX itself is not rejected by that check.
C2_TooLargeIsNoneAtOnce ==
    /\ AboveI32Max(val.abs) => pc \in {"start", "done"} /\ iter = 0
    /\ (pc = "done" /\ AboveI32Max(val.abs)) => ret = None /\ exitBy = "too large"
    /\ (pc = "done" /\ val.abs = FromInt(I32MAX)) => exitBy # "too large" /\ iter >= 1

\* -2147483647.5 has been turned down.
C2_Witness ==
    /\ pc = "done" /\ mag.kind = "num" /\ mag.num = U32MAX /\ mag.den = ToP(2) /\ val.neg
    /\ AboveI32Max(val.abs) /\ ret = None /\ iter = 0

\* C3: for a finite value of magnitude at most i32::MAX the first partial
\* quotient is at most i32::MAX and the later ones at least 1, the loop is
\* left with d1 >= 1 whichever exit is taken, and the result is Some((n, d))
\* with d > 0.
C3_RepresentableGivesSome ==
    Representable(val) =>
        /\ (pc = "loop" /\ iter = 0) => FitsI32(AsU32(fr.q))
        /\ (pc = "loop" /\ iter > 0) => AsU32(fr.q) # PZero
        /\ pc = "exit" => fr.d1 # PZero
        /\ pc = "done" => ret.some /\ ret.denom > 0

C3_Witness ==
    pc = "done" /\ Representable(val) /\ exitBy = "cap" /\ ret.some /\ ret.denom > 0

\* C4: for a representable x # 0, f64_to_fraction(-x) leaves the loop at the
\* same iteration through the same exit as f64_to_fraction(x) and returns the
\* same denominator and the negated numerator.
C4_SignPreserved ==
    (pc = "done" /\ val.neg /\ Representable(val) /\ ~IsZero(val.abs)) =>
        /\ first.ret.some /\ ret.some
        /\ ret.denom = first.ret.denom
        /\ ret.numer = -first.ret.numer
        /\ iter = first.iter
        /\ exitBy = first.exitBy

\* C5 as stated: a rational p/q whose exact continued fraction ends within 30
\* terms without overflow is returned as p/q in lowest terms, the sign on the
\* numerator.
C5_ExactRationalReturned ==
    (pc = "done" /\ ShortExactRational) => GaveExactResult

\* The f64 quotient of the fraction returned, the sign left off.
Quotient(r) ==
    FDiv(FromInt(IF r.numer < 0 THEN -r.numer ELSE r.numer), FromInt(r.denom))

\* 4 * EPSILON.
FourEpsilon == [EPSILON EXCEPT !.e = @ + 2]

\* C5 as amended: such a rational is returned as a fraction in lowest terms,
\* the denominator positive and the sign on the numerator, that need not be
\* p/q itself. When the loop is left through `f < EPSILON` the f64 quotient
\* of the fraction is within 4 * EPSILON of |val|; when it is left through
\* the close-enough test val is positive and the quotient is within MAX_ERROR
\* of it. 2.0, 2.5, 29.97 and -2.5 leave through `f < EPSILON` and give
\* (2, 1), (5, 2), (2997, 100) and (-5, 2).
C5_ExactRationalApproximated ==
    /\ (pc = "done" /\ ShortExactRational) =>
          /\ ret.some
          /\ ret.denom > 0
          /\ val.neg => ret.numer <= 0
          /\ ~val.neg => ret.numer >= 0
          /\ IntGcd(IF ret.numer < 0 THEN -ret.numer ELSE ret.numer, ret.denom) = 1
          /\ exitBy = "eps" => FLt(FAbsDiff(Quotient(ret), val.abs), FourEpsilon)
          /\ exitBy = "close" =>
                ~val.neg /\ FLt(FAbsDiff(Quotient(ret), val.abs), MAX_ERROR)
    /\ Returned(2, 1, FALSE) => exitBy = "eps" /\ Gave(ret, 2, 1)
    /\ Returned(5, 2, FALSE) => exitBy = "eps" /\ Gave(ret, 5, 2)
    /\ Returned(2997, 100, FALSE) => exitBy = "eps" /\ Gave(ret, 2997, 100)
    /\ Returned(5, 2, TRUE) => exitBy = "eps" /\ Gave(ret, -5, 2)

\* 1 - 2^-30 has left through `f < EPSILON` with 2^30 / (2^30 + 1).
C5_Witness ==
    /\ Returned(1073741823, 1073741824, FALSE)
    /\ ShortExactRational
    /\ exitBy = "eps"
    /\ Gave(ret, 1073741824, 1073741825)

\* The work a call still has ahead of it, ordered lexicographically: the calls
\* left to make, the iterations left to start, the position inside the
\* iteration, and gcd's second operand while gcd runs.
PcRank ==
    [start |-> 5, gcd |-> 4, tail |-> 3, loop |-> 2, exit |-> 1, done |-> 0, panic |-> 0]

Measure ==
    <<ToP(IF val.neg \/ mag.kind = "gcd" THEN 0 ELSE 1),
      ToP(MAX_ITERATIONS - iter),
      ToP(PcRank[pc]),
      IF pc = "gcd" THEN gb ELSE PZero>>

LexLess(x, y) ==
    \E i \in 1..4 : PLt(x[i], y[i]) /\ \A j \in 1..(i - 1) : x[j] = y[j]

\* C6: every call returns: the loop starts at most 30 iterations, each turn of
\* gcd's loop makes its second operand smaller, and every step of a call
\* lowers a measure that cannot fall for ever.
C6_Terminates ==
    /\ [](iter <= MAX_ITERATIONS)
    /\ [](\A i \in 1..4 : PLe(PZero, Measure[i]))
    /\ [][(pc = "gcd" /\ pc' = "gcd") => PLt(gb', gb)]_vars
    /\ [][LexLess(Measure', Measure)]_vars

C6_Witness == pc = "done" /\ iter = MAX_ITERATIONS /\ exitBy = "cap"

\* What the iteration about to start evaluates in u32 stays within i32::MAX:
\* the guard's products under short-circuit evaluation, and the two sums when
\* the guard lets them through.
EvaluatedWithinI32(a, l) ==
    LET guard == OverflowGuard(a, l)
    IN  /\ guard.fits
        /\ (a # PZero /\ ~PLt(MaxDiv(a), l.n1) /\ ~PLt(MaxDiv(a), l.d1)) =>
              /\ FitsI32(Mul(a, l.n1))
              /\ SubFits(MaxU32, l.n0)
              /\ ~PLt(Sub(MaxU32, l.n0), Mul(a, l.n1)) =>
                    (FitsI32(Mul(a, l.d1)) /\ SubFits(MaxU32, l.d0))
        /\ ~guard.fires =>
              /\ UpdateFits(a, l)
              /\ FitsI32(Update(a, l).n1)
              /\ FitsI32(Update(a, l).d1)

\* C7: no panic and no wrap-around: every product and sum that is evaluated
\* stays within 0..i32::MAX, also for a partial quotient above i32::MAX, no
\* division is by zero, and the two assertions hold when the loop is left.
C7_NoPanicNoWrap ==
    /\ pc # "panic"
    /\ ~arith.wrapped
    /\ \A x \in {fr.n0, fr.d0, fr.n1, fr.d1, fr.n, fr.d} : FitsI32(x)
    /\ (pc = "loop" /\ iter < MAX_ITERATIONS) => EvaluatedWithinI32(AsU32(fr.q), fr)
    /\ pc = "tail" => fr.g # PZero
    /\ (pc = "tail" /\ IsFinite(val)) => fr.d # PZero

C7_Witness == pc = "done" /\ exitBy = "guard" /\ ~FitsI32(AsU32(fr.q)) /\ ret.some

\* C8: the iteration in which the overflow guard fires leaves n0, d0, n1, d1
\* as they were, and the call returns Some of that convergent with the sign
\* of the input on the numerator, not None.
C8_GuardKeepsPreviousConvergent ==
    /\ [][(pc = "loop" /\ exitBy' = "guard") => (pc' = "exit" /\ fr' = fr)]_vars
    /\ []((pc = "done" /\ exitBy = "guard") =>
            /\ ret.some
            /\ ToP(ret.denom) = fr.d1
            /\ ToP(IF val.neg THEN -ret.numer ELSE ret.numer) = fr.n1)

C8_Witness == pc = "done" /\ exitBy = "guard" /\ val.neg /\ ret.some /\ ret.denom > 1

\* C9: |n1 * d0 - n0 * d1| = 1 throughout, so the gcd taken in the loop is 1,
\* never 0, the reduction changes nothing, and the pair handed to the result
\* is in lowest terms: Rational32::new keeps it as it is.
C9_ConvergentsInLowestTerms ==
    /\ DetIsUnit(fr)
    /\ pc = "tail" => fr.g = POne /\ Reduce(fr) = fr
    /\ pc \in {"exit", "done"} => gcd(fr.n1, fr.d1) = POne
    /\ (pc = "done" /\ ret.some) => ret.args = <<ret.numer, ret.denom>>

C9_Witness ==
    /\ pc = "tail" /\ fr.g = POne
    /\ PLt(ToP(1000), fr.n1) /\ PLt(ToP(1000), fr.d1)

\* A call of op ends in this step, by returning or by a panic.
Ends(op) == returned'.n # returned.n /\ returned'.op = op

\* One of the caps of the set_caps that ended does not parse.
Unparsable(r) == \E i \in 1..2 : ~from_caps(r.args[i]).some

====
